---------------------------- MODULE Spec2Model ----------------------------
(***************************************************************************)
(* The OneStopRadio media-server mocks: src/mock_cpp_server.py (port 8080) *)
(* and src/start_mock_server_8082.py (port 8082).  Each program owns one   *)
(* module-level dict, server_state, and an HTTPServer whose handler class  *)
(* MockCppHandler mutates it in do_GET / do_POST.                          *)
(*                                                                         *)
(* Numbers.  Every Python float of the state is held as an integer number  *)
(* of hundredths (0.5 is 50, 1.0 is 100, a gain percentage of 75.0 is      *)
(* 7500).  Products of such values keep the product of the units: see      *)
(* the comments at the level computations.                                 *)
(***************************************************************************)
EXTENDS Integers, Sequences, FiniteSets, TLC

VARIABLES
    variant,        \* which program runs: "mock_cpp_server" or "start_mock_server_8082"
    uptime,         \* server_state['uptime']
    mixer,          \* server_state['mixer']
    microphone,     \* server_state['microphone']
    audio_levels,   \* server_state['audio_levels']
    request,        \* the request handled last (method, path, body)
    response,       \* what the handler sent for it
    connections     \* the clients whose handling is followed statement by statement

vars == <<variant, uptime, mixer, microphone, audio_levels, request, response, connections>>

state == <<uptime, mixer, microphone, audio_levels>>

(***************************************************************************)
(* Bounds of the model.                                                    *)
(***************************************************************************)
\* int(time.time() - start_time) is unbounded; the model caps it.
MaxUptime == 1
\* The clients that submit a request at the same time.
MaxClients == 2

(***************************************************************************)
(* JSON values, as json.loads returns them.                                *)
(***************************************************************************)
JNull      == [t |-> "null",   n |-> 0, s |-> ""]
JNum(x)    == [t |-> "num",    n |-> x, s |-> ""]   \* a finite number, x hundredths
JNaN       == [t |-> "nan",    n |-> 0, s |-> ""]   \* the literal NaN (json.loads accepts it)
JBigInt    == [t |-> "bigint", n |-> 0, s |-> ""]   \* an integer literal above the float range
JStr(x)    == [t |-> "str",    n |-> 0, s |-> x]

\* The numbers a client sends in "value" (hundredths: -0.5, 0.3, 1.5) ...
ValueNumbers == {-50, 30, 150}
\* ... and in "gain" (a percentage: -50, 30, 50, 150; in hundredths).
GainNumbers == {-5000, 3000, 5000, 15000}
\* What may stand where a number is expected.
NonNumbers == {JNaN, JBigInt, JStr("abc"), JNull}
TrackNames == {"a"}
PlaybackActions == {"play", "pause", "stop", "rewind"}

(***************************************************************************)
(* A request body as it arrives: absent (no Content-Length, or 0),         *)
(* malformed (json.loads raises), a JSON value that is no object, or an    *)
(* object with its fields.  Every request of the model carries a           *)
(* Content-Length that int() accepts and that is the length of its body.   *)
(***************************************************************************)
NoFields      == [k \in {} |-> JNull]
AbsentBody    == [kind |-> "absent",    fields |-> NoFields]
MalformedBody == [kind |-> "malformed", fields |-> NoFields]
NonObjectBody == [kind |-> "nonobject", fields |-> NoFields]
ObjectBody(f) == [kind |-> "object",    fields |-> f]

FallbackBodies == {AbsentBody, MalformedBody, ObjectBody(NoFields)}

BodiesWith(key, values) ==
    FallbackBodies \cup {NonObjectBody} \cup {ObjectBody(key :> v) : v \in values}

ValueBodies  == BodiesWith("value", {JNum(x) : x \in ValueNumbers} \cup NonNumbers)
GainBodies   == BodiesWith("gain", {JNum(x) : x \in GainNumbers} \cup NonNumbers)
NameBodies   == BodiesWith("name", {JStr(x) : x \in TrackNames})
ActionBodies == BodiesWith("action", {JStr(x) : x \in PlaybackActions})
PlainBodies  == {AbsentBody, MalformedBody, NonObjectBody}

(***************************************************************************)
(* Paths are the sequence of their segments: /api/mixer/crossfader is      *)
(* <<"api", "mixer", "crossfader">>, so that path.split('/') is            *)
(* <<"">> \o path.                                                         *)
(***************************************************************************)
\* What a client puts in the {id} segment.
IdSegments == {"-1", "0", "1", "01", "2", "3", "9", "abc"}

ChannelPath(seg, op) == <<"api", "mixer", "channel", seg, op>>

RECURSIVE PathString(_)
PathString(p) == IF p = <<>> THEN "" ELSE "/" \o Head(p) \o PathString(Tail(p))

\* path.startswith('/api/mixer/channel/')
StartsWithChannel(p) == Len(p) >= 4 /\ SubSeq(p, 1, 3) = <<"api", "mixer", "channel">>
\* path.endswith('/volume') and the like (no segment of the model holds a '/')
EndsWith(p, op) == Len(p) >= 1 /\ p[Len(p)] = op

(***************************************************************************)
(* Python's conversions.                                                   *)
(***************************************************************************)
\* The outcome of a conversion: the number, NaN, or the exception raised.
Raise(e) == [ok |-> FALSE, exc |-> e, nan |-> FALSE, n |-> 0]
Float(x) == [ok |-> TRUE,  exc |-> "", nan |-> FALSE, n |-> x]
NaN      == [ok |-> TRUE,  exc |-> "", nan |-> TRUE,  n |-> 0]

\* int(parts[4]): the segments of the model that are integer literals.
PyInt(seg) ==
    CASE seg = "-1" -> Float(-1)
      [] seg = "0"  -> Float(0)
      [] seg = "1"  -> Float(1)
      [] seg = "01" -> Float(1)
      [] seg = "2"  -> Float(2)
      [] seg = "3"  -> Float(3)
      [] seg = "9"  -> Float(9)
      [] OTHER      -> Raise("ValueError")

\* float(value) of a JSON value.
PyFloat(j) ==
    CASE j.t = "num"    -> Float(j.n)
      [] j.t = "nan"    -> NaN
      [] j.t = "bigint" -> Raise("OverflowError")
      [] j.t = "str"    -> Raise("ValueError")   \* no string of the model is a numeral
      [] OTHER          -> Raise("TypeError")

\* a < b on floats: every comparison with NaN is false.
PyLess(a, b) == ~a.nan /\ ~b.nan /\ a.n < b.n
\* min(a, b) and max(a, b): the first argument stays unless the second beats it.
PyMin(a, b) == IF PyLess(b, a) THEN b ELSE a
PyMax(a, b) == IF PyLess(a, b) THEN b ELSE a

\* max(0.0, min(1.0, f)), in hundredths.
Clamp01NoCeiling(f) == PyMax(Float(0), f).n

Clamp01(f) == PyMax(Float(0), PyMin(Float(100), f)).n
\* max(0.0, min(100.0, f)) / 100.0: a percentage in hundredths to a [0,1] value in
\* hundredths (exact for the whole percentages of the model).
ClampPercent(f) == PyMax(Float(0), PyMin(Float(10000), f)).n \div 100

(***************************************************************************)
(* Reading the body (do_POST, "Read request body").                        *)
(***************************************************************************)
\* body = {} unless Content-Length > 0 and json.loads succeeds.
ParseBodyNoRecovery(raw) ==
    CASE raw.kind = "object" -> [isdict |-> TRUE,  fields |-> raw.fields]
      [] raw.kind = "absent" -> [isdict |-> TRUE,  fields |-> NoFields]
      [] OTHER               -> [isdict |-> FALSE, fields |-> NoFields]

ParseBody(raw) ==
    CASE raw.kind = "object"    -> [isdict |-> TRUE,  fields |-> raw.fields]
      [] raw.kind = "nonobject" -> [isdict |-> FALSE, fields |-> NoFields]
      [] OTHER                  -> [isdict |-> TRUE,  fields |-> NoFields]

\* body.get(key, default): only a dict has .get.
BodyGet(body, key, default) ==
    IF ~body.isdict THEN [ok |-> FALSE, exc |-> "AttributeError", v |-> JNull]
    ELSE [ok |-> TRUE, exc |-> "",
          v |-> IF key \in DOMAIN body.fields THEN body.fields[key] ELSE default]

(***************************************************************************)
(* Responses.  send_json_response(data, status_code) is a status and the   *)
(* dict; an exception that leaves do_GET / do_POST sends nothing (the      *)
(* socket server logs it and closes the connection): status 0.             *)
(***************************************************************************)
Json(code, data) == [status |-> code, body |-> data]
Unhandled(e)     == [status |-> 0, body |-> [exception |-> e]]
NoResponse       == [status |-> 0, body |-> [exception |-> ""]]

(***************************************************************************)
(* The state after the module is loaded (server_state).                    *)
(***************************************************************************)
Channel(i) ==
    [id |-> i, volume |-> 70, loaded_track |-> JNull, is_playing |-> FALSE,
     position |-> 0, eq |-> [low |-> 0, mid |-> 0, high |-> 0]]

InitialMixer ==
    [crossfader |-> 50, master_volume |-> 80, channels |-> <<Channel(1), Channel(2)>>]

InitialMicrophone ==
    [enabled |-> FALSE, muted |-> FALSE, gain |-> 50, talkover |-> FALSE]

InitialLevels ==
    [master_left |-> 0, master_right |-> 0,
     channel_1_left |-> 0, channel_1_right |-> 0,
     channel_2_left |-> 0, channel_2_right |-> 0,
     microphone |-> 0]

Req(m, p, b) == [method |-> m, path |-> p, body |-> b]

NoRequest == Req("", <<>>, AbsentBody)

\* A client's connection: its request, the statement of the handler that runs next
\* (0 while the connection waits to be accepted) and the handler's local value.
Clients == 1..MaxClients
Connection(req, pc, local) == [req |-> req, pc |-> pc, local |-> local]
NoConnections == [c \in Clients |-> Connection(NoRequest, 0, FALSE)]

InitServerState ==
    /\ uptime = 0
    /\ mixer = InitialMixer
    /\ microphone = InitialMicrophone
    /\ audio_levels = InitialLevels
    /\ request = NoRequest
    /\ response = NoResponse

\* Handlers that are followed as one step each leave the connections alone.
InitState == InitServerState /\ connections = NoConnections

Init8080 == variant = "mock_cpp_server" /\ InitState
Init8082 == variant = "start_mock_server_8082" /\ InitState

(***************************************************************************)
(* mock_cpp_server.py, do_POST.  Each route of the if/elif chain is one    *)
(* action; the guards are the chain's conditions.                          *)
(***************************************************************************)
CrossfaderPath   == <<"api", "mixer", "crossfader">>
MasterVolumePath == <<"api", "mixer", "master", "volume">>
MicTogglePath    == <<"api", "mixer", "microphone", "toggle">>

IsPost8080(req) == variant = "mock_cpp_server" /\ req.method = "POST"

\* float(body.get(key, default)), or the exception on the way.
FloatField(raw, key, default) ==
    LET got == BodyGet(ParseBody(raw), key, default)
    IN  IF got.ok THEN PyFloat(got.v) ELSE Raise(got.exc)

InvalidChannelNoSuccess == Json(400, [error |-> "Invalid channel ID"])

InvalidChannel       == Json(400, [success |-> FALSE, error |-> "Invalid channel ID"])
InvalidChannelInPath == Json(400, [success |-> FALSE, error |-> "Invalid channel ID in path"])

\* What the try block of a channel route does with an exception: ValueError and
\* IndexError are caught, every other one leaves the handler.
ChannelExceptCatchesNothing(e) == Unhandled(e)

ChannelExcept(e) ==
    IF e \in {"ValueError", "IndexError"} THEN InvalidChannelInPath ELSE Unhandled(e)

PostCrossfader(req) ==
    /\ IsPost8080(req)
    /\ req.path = CrossfaderPath
    /\ LET f == FloatField(req.body, "value", JNum(50))
       IN  IF f.ok
           THEN /\ mixer' = [mixer EXCEPT !.crossfader = Clamp01(f)]
                /\ response' = Json(200, [success |-> TRUE,
                                          action  |-> "crossfader_set",
                                          value   |-> mixer'.crossfader])
           ELSE /\ mixer' = mixer
                /\ response' = Unhandled(f.exc)
    /\ request' = req
    /\ UNCHANGED <<connections, variant, uptime, microphone, audio_levels>>

PostChannelVolume(req) ==
    /\ IsPost8080(req)
    /\ StartsWithChannel(req.path) /\ EndsWith(req.path, "volume")
    /\ LET id == PyInt(req.path[4])
           channel_id == id.n - 1
           f == FloatField(req.body, "value", JNum(70))
       IN  IF ~id.ok
           THEN mixer' = mixer /\ response' = ChannelExcept(id.exc)
           ELSE IF ~(0 <= channel_id /\ channel_id < 2)
           THEN mixer' = mixer /\ response' = InvalidChannel
           ELSE IF ~f.ok
           THEN mixer' = mixer /\ response' = ChannelExcept(f.exc)
           ELSE /\ mixer' = [mixer EXCEPT !.channels[channel_id + 1].volume = Clamp01(f)]
                /\ response' = Json(200, [success |-> TRUE,
                                          action  |-> "channel_volume_set",
                                          channel |-> channel_id + 1,
                                          value   |-> mixer'.channels[channel_id + 1].volume])
    /\ request' = req
    /\ UNCHANGED <<connections, variant, uptime, microphone, audio_levels>>

\* f'Track_{int(time.time())}': a name that depends on the clock.
DefaultTrackName == JStr("Track_{time}")

\* The two assignments of the load route, on one channel record.
LoadTrackStopsPlayback(ch, track_name) ==
    [ch EXCEPT !.loaded_track = track_name, !.position = 0, !.is_playing = FALSE]

LoadTrack(ch, track_name) ==
    [ch EXCEPT !.loaded_track = track_name, !.position = 0]

PostChannelLoad(req) ==
    /\ IsPost8080(req)
    /\ StartsWithChannel(req.path) /\ EndsWith(req.path, "load")
    /\ LET id == PyInt(req.path[4])
           channel_id == id.n - 1
           track_name == BodyGet(ParseBody(req.body), "name", DefaultTrackName)
       IN  IF ~id.ok
           THEN mixer' = mixer /\ response' = ChannelExcept(id.exc)
           ELSE IF ~(0 <= channel_id /\ channel_id < 2)
           THEN mixer' = mixer /\ response' = InvalidChannel
           ELSE IF ~track_name.ok
           THEN mixer' = mixer /\ response' = ChannelExcept(track_name.exc)
           ELSE /\ mixer' = [mixer EXCEPT !.channels[channel_id + 1] =
                                              LoadTrack(@, track_name.v)]
                /\ response' = Json(200, [success |-> TRUE,
                                          action  |-> "track_loaded",
                                          channel |-> channel_id + 1,
                                          track   |-> track_name.v])
    /\ request' = req
    /\ UNCHANGED <<connections, variant, uptime, microphone, audio_levels>>

\* str(action) inside the f-string.
PyStr(j) ==
    CASE j.t = "str"  -> j.s
      [] j.t = "null" -> "None"
      [] j.t = "nan"  -> "nan"
      [] OTHER        -> "{number}"

\* action == 'play' and the like.
IsStr(j, s) == j.t = "str" /\ j.s = s

\* The if/elif chain on action: what it does to one channel record.
ApplyPlaybackStopKeepsPlaying(ch, action) ==
    IF IsStr(action, "play")       THEN [ch EXCEPT !.is_playing = TRUE]
    ELSE IF IsStr(action, "pause") THEN [ch EXCEPT !.is_playing = FALSE]
    ELSE IF IsStr(action, "stop")  THEN [ch EXCEPT !.position = 0]
    ELSE ch

ApplyPlaybackPauseIgnored(ch, action) ==
    IF IsStr(action, "play")       THEN [ch EXCEPT !.is_playing = TRUE]
    ELSE IF IsStr(action, "stop")  THEN [ch EXCEPT !.is_playing = FALSE, !.position = 0]
    ELSE ch

ApplyPlaybackUnknownPauses(ch, action) ==
    IF IsStr(action, "play")       THEN [ch EXCEPT !.is_playing = TRUE]
    ELSE IF IsStr(action, "stop")  THEN [ch EXCEPT !.is_playing = FALSE, !.position = 0]
    ELSE [ch EXCEPT !.is_playing = FALSE]

ApplyPlaybackStopStepsBack(ch, action) ==
    IF IsStr(action, "play")       THEN [ch EXCEPT !.is_playing = TRUE]
    ELSE IF IsStr(action, "pause") THEN [ch EXCEPT !.is_playing = FALSE]
    ELSE IF IsStr(action, "stop")  THEN [ch EXCEPT !.is_playing = FALSE, !.position = @ - 100]
    ELSE ch

ApplyPlayback(ch, action) ==
    IF IsStr(action, "play")       THEN [ch EXCEPT !.is_playing = TRUE]
    ELSE IF IsStr(action, "pause") THEN [ch EXCEPT !.is_playing = FALSE]
    ELSE IF IsStr(action, "stop")  THEN [ch EXCEPT !.is_playing = FALSE, !.position = 0]
    ELSE ch

PostChannelPlayback(req) ==
    /\ IsPost8080(req)
    /\ StartsWithChannel(req.path) /\ EndsWith(req.path, "playback")
    /\ LET id == PyInt(req.path[4])
           channel_id == id.n - 1
           action == BodyGet(ParseBody(req.body), "action", JStr("play"))
       IN  IF ~id.ok
           THEN mixer' = mixer /\ response' = ChannelExcept(id.exc)
           ELSE IF ~(0 <= channel_id /\ channel_id < 2)
           THEN mixer' = mixer /\ response' = InvalidChannel
           ELSE IF ~action.ok
           THEN mixer' = mixer /\ response' = ChannelExcept(action.exc)
           ELSE /\ mixer' = [mixer EXCEPT !.channels[channel_id + 1] =
                                              ApplyPlayback(@, action.v)]
                /\ response' = Json(200, [success    |-> TRUE,
                                          action     |-> "playback_" \o PyStr(action.v),
                                          channel    |-> channel_id + 1,
                                          is_playing |-> mixer'.channels[channel_id + 1].is_playing])
    /\ request' = req
    /\ UNCHANGED <<connections, variant, uptime, microphone, audio_levels>>

PostMicrophoneToggleEnables(req) ==
    /\ IsPost8080(req)
    /\ req.path = MicTogglePath
    /\ microphone' = [microphone EXCEPT !.enabled = TRUE]
    /\ response' = Json(200, [success |-> TRUE,
                              action  |-> "microphone_toggle",
                              enabled |-> microphone'.enabled])
    /\ request' = req
    /\ UNCHANGED <<connections, variant, uptime, mixer, audio_levels>>

PostMicrophoneToggle(req) ==
    /\ IsPost8080(req)
    /\ req.path = MicTogglePath
    /\ microphone' = [microphone EXCEPT !.enabled = ~microphone.enabled]
    /\ response' = Json(200, [success |-> TRUE,
                              action  |-> "microphone_toggle",
                              enabled |-> microphone'.enabled])
    /\ request' = req
    /\ UNCHANGED <<connections, variant, uptime, mixer, audio_levels>>

PostMasterVolume(req) ==
    /\ IsPost8080(req)
    /\ req.path = MasterVolumePath
    /\ LET f == FloatField(req.body, "value", JNum(80))
       IN  IF f.ok
           THEN /\ mixer' = [mixer EXCEPT !.master_volume = Clamp01(f)]
                /\ response' = Json(200, [success |-> TRUE,
                                          action  |-> "master_volume_set",
                                          value   |-> mixer'.master_volume])
           ELSE /\ mixer' = mixer
                /\ response' = Unhandled(f.exc)
    /\ request' = req
    /\ UNCHANGED <<connections, variant, uptime, microphone, audio_levels>>

IsChannelRoute(p) ==
    StartsWithChannel(p) /\ (EndsWith(p, "volume") \/ EndsWith(p, "load") \/ EndsWith(p, "playback"))

PostNotFound(req) ==
    /\ IsPost8080(req)
    /\ req.path \notin {CrossfaderPath, MasterVolumePath, MicTogglePath}
    /\ ~IsChannelRoute(req.path)
    /\ response' = Json(404, [success |-> FALSE,
                              error   |-> "POST endpoint not implemented: " \o PathString(req.path)])
    /\ request' = req
    /\ UNCHANGED <<connections, variant, uptime, mixer, microphone, audio_levels>>

(***************************************************************************)
(* mock_cpp_server.py, do_GET.  Every GET first refreshes uptime from the  *)
(* wall clock.                                                             *)
(***************************************************************************)
HealthPath    == <<"api", "health">>
StatsPath     == <<"api", "stats">>
StatusPath    == <<"api", "mixer", "status">>
MicStatusPath == <<"api", "mixer", "microphone", "status">>
LevelsPath    == <<"api", "audio", "levels">>

\* The draws of random.uniform(0.3, 0.9) and random.uniform(0.3, 0.8), in hundredths.
LevelSamples == {30, 90}
MicSamples   == {30, 80}

IsGet8080(req) == variant = "mock_cpp_server" /\ req.method = "GET"

\* server_state['uptime'] = int(time.time() - server_state['start_time'])
UpdateUptime == uptime' \in 0..MaxUptime

Max2(a, b) == IF a < b THEN b ELSE a

GetHealth(req) ==
    /\ IsGet8080(req)
    /\ req.path = HealthPath
    /\ UpdateUptime
    /\ response' = Json(200, [status    |-> "ok",
                              service   |-> "C++ Media Server Mock",
                              version   |-> "1.0.0",
                              uptime    |-> uptime',
                              timestamp |-> "{now}"])
    /\ request' = req
    /\ UNCHANGED <<connections, variant, mixer, microphone, audio_levels>>

GetStats(req) ==
    /\ IsGet8080(req)
    /\ req.path = StatsPath
    /\ UpdateUptime
    /\ \E cpu \in {1000, 3000}, mem \in {4000, 8000}, conns \in {0, 5} :
          response' = Json(200, [success |-> TRUE,
                                 stats   |-> [uptime              |-> uptime',
                                              cpu_usage           |-> cpu,
                                              memory_usage        |-> mem,
                                              audio_buffer_health |-> "good",
                                              active_connections  |-> conns]])
    /\ request' = req
    /\ UNCHANGED <<connections, variant, mixer, microphone, audio_levels>>

\* The levels GET /api/mixer/status stores, for the draws l1, r1, l2, r2.  The channel
\* levels are hundredths; master_left and master_right are products of four values in
\* hundredths, so they are in units of 10^-8.
StatusLevelsIgnorePlaying(l1, r1, l2, r2) ==
    LET ch1_output == l1 * mixer.channels[1].volume * (100 - mixer.crossfader) * mixer.master_volume
        ch2_output == l2 * mixer.channels[2].volume * mixer.crossfader * mixer.master_volume
    IN  [audio_levels EXCEPT !.channel_1_left  = l1,
                             !.channel_1_right = r1,
                             !.channel_2_left  = l2,
                             !.channel_2_right = r2,
                             !.master_left     = Max2(ch1_output, ch2_output),
                             !.master_right    = Max2(ch1_output, ch2_output)]

StatusLevelsUnweighted(l1, r1, l2, r2) ==
    LET c1l == IF mixer.channels[1].is_playing THEN l1 ELSE 0
        c1r == IF mixer.channels[1].is_playing THEN r1 ELSE 0
        c2l == IF mixer.channels[2].is_playing THEN l2 ELSE 0
        c2r == IF mixer.channels[2].is_playing THEN r2 ELSE 0
        ch1_output == c1l * mixer.channels[1].volume * 100 * mixer.master_volume
        ch2_output == c2l * mixer.channels[2].volume * 100 * mixer.master_volume
    IN  [audio_levels EXCEPT !.channel_1_left  = c1l,
                             !.channel_1_right = c1r,
                             !.channel_2_left  = c2l,
                             !.channel_2_right = c2r,
                             !.master_left     = Max2(ch1_output, ch2_output),
                             !.master_right    = Max2(ch1_output, ch2_output)]

StatusLevels(l1, r1, l2, r2) ==
    LET c1l == IF mixer.channels[1].is_playing THEN l1 ELSE 0
        c1r == IF mixer.channels[1].is_playing THEN r1 ELSE 0
        c2l == IF mixer.channels[2].is_playing THEN l2 ELSE 0
        c2r == IF mixer.channels[2].is_playing THEN r2 ELSE 0
        crossfader == mixer.crossfader
        ch1_vol    == mixer.channels[1].volume
        ch2_vol    == mixer.channels[2].volume
        master_vol == mixer.master_volume
        ch1_output == c1l * ch1_vol * (100 - crossfader) * master_vol
        ch2_output == c2l * ch2_vol * crossfader * master_vol
    IN  [audio_levels EXCEPT !.channel_1_left  = c1l,
                             !.channel_1_right = c1r,
                             !.channel_2_left  = c2l,
                             !.channel_2_right = c2r,
                             !.master_left     = Max2(ch1_output, ch2_output),
                             !.master_right    = Max2(ch1_output, ch2_output)]

GetMixerStatusAdvancesPosition(req) ==
    /\ IsGet8080(req)
    /\ req.path = StatusPath
    /\ UpdateUptime
    /\ \E l1 \in LevelSamples, r1 \in LevelSamples, l2 \in LevelSamples, r2 \in LevelSamples :
          audio_levels' = StatusLevels(l1, r1, l2, r2)
    /\ mixer' = [mixer EXCEPT !.channels =
                     [c \in 1..2 |-> IF mixer.channels[c].is_playing
                                      THEN [mixer.channels[c] EXCEPT !.position = 100]
                                      ELSE mixer.channels[c]]]
    /\ response' = Json(200, [success      |-> TRUE,
                              mixer        |-> mixer',
                              audio_levels |-> audio_levels'])
    /\ request' = req
    /\ UNCHANGED <<connections, variant, microphone>>

GetMixerStatus(req) ==
    /\ IsGet8080(req)
    /\ req.path = StatusPath
    /\ UpdateUptime
    /\ \E l1 \in LevelSamples, r1 \in LevelSamples, l2 \in LevelSamples, r2 \in LevelSamples :
          audio_levels' = StatusLevels(l1, r1, l2, r2)
    /\ response' = Json(200, [success      |-> TRUE,
                              mixer        |-> mixer,
                              audio_levels |-> audio_levels'])
    /\ request' = req
    /\ UNCHANGED <<connections, variant, mixer, microphone>>

GetMicrophoneStatus(req) ==
    /\ IsGet8080(req)
    /\ req.path = MicStatusPath
    /\ UpdateUptime
    /\ response' = Json(200, [success |-> TRUE, microphone |-> microphone])
    /\ request' = req
    /\ UNCHANGED <<connections, variant, mixer, microphone, audio_levels>>

GetAudioLevelsRecomputes(req) ==
    /\ IsGet8080(req)
    /\ req.path = LevelsPath
    /\ UpdateUptime
    /\ \E l1 \in LevelSamples, r1 \in LevelSamples, l2 \in LevelSamples, r2 \in LevelSamples :
          audio_levels' = StatusLevels(l1, r1, l2, r2)
    /\ response' = Json(200, [success |-> TRUE, levels |-> audio_levels'])
    /\ request' = req
    /\ UNCHANGED <<connections, variant, mixer, microphone>>

GetAudioLevels(req) ==
    /\ IsGet8080(req)
    /\ req.path = LevelsPath
    /\ UpdateUptime
    /\ response' = Json(200, [success |-> TRUE, levels |-> audio_levels])
    /\ request' = req
    /\ UNCHANGED <<connections, variant, mixer, microphone, audio_levels>>

\* 'available_endpoints', each entry without its description.
AvailableEndpoints ==
    << <<"GET", "/api/health">>,
       <<"GET", "/api/stats">>,
       <<"GET", "/api/mixer/status">>,
       <<"GET", "/api/mixer/microphone/status">>,
       <<"GET", "/api/audio/levels">>,
       <<"POST", "/api/mixer/crossfader">>,
       <<"POST", "/api/mixer/channel/{id}/volume">>,
       <<"POST", "/api/mixer/channel/{id}/load">>,
       <<"POST", "/api/mixer/channel/{id}/playback">>,
       <<"POST", "/api/mixer/microphone/toggle">> >>

GetNotFound(req) ==
    /\ IsGet8080(req)
    /\ req.path \notin {HealthPath, StatsPath, StatusPath, MicStatusPath, LevelsPath}
    /\ UpdateUptime
    /\ response' = Json(404, [success             |-> FALSE,
                              error               |-> "Endpoint not found",
                              available_endpoints |-> AvailableEndpoints])
    /\ request' = req
    /\ UNCHANGED <<connections, variant, mixer, microphone, audio_levels>>

\* do_OPTIONS: status 200, the CORS headers, no body.
Options(req) ==
    /\ variant = "mock_cpp_server"
    /\ req.method = "OPTIONS"
    /\ response' = Json(200, NoFields)
    /\ request' = req
    /\ UNCHANGED <<connections, variant, uptime, mixer, microphone, audio_levels>>

(***************************************************************************)
(* start_mock_server_8082.py, do_POST.                                     *)
(***************************************************************************)
MicStartPath == <<"api", "mixer", "microphone", "start">>
MicStopPath  == <<"api", "mixer", "microphone", "stop">>
MicGainPath  == <<"api", "mixer", "microphone", "gain">>

IsPost8082(req) == variant = "start_mock_server_8082" /\ req.method = "POST"

\* 'enabled' is assigned before float(gain) is evaluated: an exception of float()
\* leaves the microphone enabled with its old gain and talkover.
PostMicrophoneStart8082(req) ==
    /\ IsPost8082(req)
    /\ req.path = MicStartPath
    /\ LET gain == BodyGet(ParseBody(req.body), "gain", JNum(7500))
           f == PyFloat(gain.v)
       IN  IF ~gain.ok
           THEN microphone' = microphone /\ response' = Unhandled(gain.exc)
           ELSE IF ~f.ok
           THEN /\ microphone' = [microphone EXCEPT !.enabled = TRUE]
                /\ response' = Unhandled(f.exc)
           ELSE /\ microphone' = [microphone EXCEPT !.enabled = TRUE,
                                                    !.gain = ClampPercent(f),
                                                    !.talkover = TRUE]
                /\ response' = Json(200, [success          |-> TRUE,
                                          action           |-> "microphone_started",
                                          gain             |-> gain.v,
                                          talkover_enabled |-> TRUE,
                                          message          |-> "Microphone started with auto-talkover"])
    /\ request' = req
    /\ UNCHANGED <<connections, variant, uptime, mixer, audio_levels>>

PostMicrophoneStop8082ResetsGain(req) ==
    /\ IsPost8082(req)
    /\ req.path = MicStopPath
    /\ microphone' = [microphone EXCEPT !.enabled = FALSE, !.talkover = FALSE, !.gain = 50]
    /\ response' = Json(200, [success          |-> TRUE,
                              action           |-> "microphone_stopped",
                              talkover_enabled |-> FALSE,
                              message          |-> "Microphone stopped, talkover disabled"])
    /\ request' = req
    /\ UNCHANGED <<connections, variant, uptime, mixer, audio_levels>>

PostMicrophoneStop8082(req) ==
    /\ IsPost8082(req)
    /\ req.path = MicStopPath
    /\ microphone' = [microphone EXCEPT !.enabled = FALSE, !.talkover = FALSE]
    /\ response' = Json(200, [success          |-> TRUE,
                              action           |-> "microphone_stopped",
                              talkover_enabled |-> FALSE,
                              message          |-> "Microphone stopped, talkover disabled"])
    /\ request' = req
    /\ UNCHANGED <<connections, variant, uptime, mixer, audio_levels>>

PostMicrophoneGain8082(req) ==
    /\ IsPost8082(req)
    /\ req.path = MicGainPath
    /\ LET gain == BodyGet(ParseBody(req.body), "gain", JNum(7500))
           f == PyFloat(gain.v)
       IN  IF ~gain.ok
           THEN microphone' = microphone /\ response' = Unhandled(gain.exc)
           ELSE IF ~f.ok
           THEN microphone' = microphone /\ response' = Unhandled(f.exc)
           ELSE /\ microphone' = [microphone EXCEPT !.gain = ClampPercent(f)]
                /\ response' = Json(200, [success         |-> TRUE,
                                          action          |-> "microphone_gain_set",
                                          gain            |-> gain.v,
                                          normalized_gain |-> microphone'.gain])
    /\ request' = req
    /\ UNCHANGED <<connections, variant, uptime, mixer, audio_levels>>

PostNotFound8082(req) ==
    /\ IsPost8082(req)
    /\ req.path \notin {MicStartPath, MicStopPath, MicGainPath}
    /\ response' = Json(404, [success |-> FALSE,
                              error   |-> "POST endpoint not implemented: " \o PathString(req.path)])
    /\ request' = req
    /\ UNCHANGED <<connections, variant, uptime, mixer, microphone, audio_levels>>

(***************************************************************************)
(* start_mock_server_8082.py, do_GET and simulate_audio_levels.            *)
(***************************************************************************)
IsGet8082(req) == variant = "start_mock_server_8082" /\ req.method = "GET"

\* simulate_audio_levels for the draws m (microphone) and l1, r1, l2, r2.  The
\* microphone level is a draw times the gain (units of 10^-4), as are the channel
\* terms of the maximum; the master levels are that times master_volume (10^-6).
SimulateAudioLevels(m, l1, r1, l2, r2) ==
    LET mic == IF microphone.enabled THEN m * microphone.gain ELSE 0
        c1l == IF mixer.channels[1].is_playing THEN l1 ELSE 0
        c1r == IF mixer.channels[1].is_playing THEN r1 ELSE 0
        c2l == IF mixer.channels[2].is_playing THEN l2 ELSE 0
        c2r == IF mixer.channels[2].is_playing THEN r2 ELSE 0
        master_left == Max2(Max2(c1l * mixer.channels[1].volume,
                                 c2l * mixer.channels[2].volume), mic)
                       * mixer.master_volume
    IN  [microphone      |-> mic,
         channel_1_left  |-> c1l,
         channel_1_right |-> c1r,
         channel_2_left  |-> c2l,
         channel_2_right |-> c2r,
         master_left     |-> master_left,
         master_right    |-> master_left]

GetHealth8082(req) ==
    /\ IsGet8082(req)
    /\ req.path = HealthPath
    /\ UpdateUptime
    /\ response' = Json(200, [status    |-> "ok",
                              service   |-> "C++ Media Server Mock",
                              version   |-> "1.0.0",
                              uptime    |-> uptime',
                              timestamp |-> "{now}"])
    /\ request' = req
    /\ UNCHANGED <<connections, variant, mixer, microphone, audio_levels>>

GetMixerStatus8082(req) ==
    /\ IsGet8082(req)
    /\ req.path = StatusPath
    /\ UpdateUptime
    /\ \E m \in MicSamples, l1 \in LevelSamples, r1 \in LevelSamples,
          l2 \in LevelSamples, r2 \in LevelSamples :
          audio_levels' = SimulateAudioLevels(m, l1, r1, l2, r2)
    /\ response' = Json(200, [success      |-> TRUE,
                              mixer        |-> mixer,
                              audio_levels |-> audio_levels'])
    /\ request' = req
    /\ UNCHANGED <<connections, variant, mixer, microphone>>

GetMicrophoneStatus8082(req) ==
    /\ IsGet8082(req)
    /\ req.path = MicStatusPath
    /\ UpdateUptime
    /\ response' = Json(200, [success |-> TRUE, microphone |-> microphone])
    /\ request' = req
    /\ UNCHANGED <<connections, variant, mixer, microphone, audio_levels>>

AvailableEndpoints8082 ==
    << <<"GET", "/api/health">>,
       <<"GET", "/api/mixer/status">>,
       <<"GET", "/api/mixer/microphone/status">>,
       <<"POST", "/api/mixer/microphone/start">>,
       <<"POST", "/api/mixer/microphone/stop">>,
       <<"POST", "/api/mixer/microphone/gain">> >>

GetNotFound8082(req) ==
    /\ IsGet8082(req)
    /\ req.path \notin {HealthPath, StatusPath, MicStatusPath}
    /\ UpdateUptime
    /\ response' = Json(404, [success             |-> FALSE,
                              error               |-> "Endpoint not found",
                              available_endpoints |-> AvailableEndpoints8082])
    /\ request' = req
    /\ UNCHANGED <<connections, variant, mixer, microphone, audio_levels>>

Options8082(req) ==
    /\ variant = "start_mock_server_8082"
    /\ req.method = "OPTIONS"
    /\ response' = Json(200, NoFields)
    /\ request' = req
    /\ UNCHANGED <<connections, variant, uptime, mixer, microphone, audio_levels>>

(***************************************************************************)
(* The requests a client sends.                                            *)
(***************************************************************************)
Posts(path, bodies) == {Req("POST", path, b) : b \in bodies}

ChannelPosts(op, segs, bodies) ==
    {Req("POST", ChannelPath(seg, op), b) : seg \in segs, b \in bodies}

Gets(paths) == {Req("GET", p, AbsentBody) : p \in paths}

\* The two channels and one that does not exist.
SomeIds == {"1", "2", "9"}

StatusRequests    == Gets({StatusPath})
MicStatusRequests == Gets({MicStatusPath})

(***************************************************************************)
(* Specifications.  The server handles one request after the other         *)
(* (HTTPServer.serve_forever); a specification fixes the program that runs *)
(* and the requests its clients send.                                      *)
(***************************************************************************)
\* mock_cpp_server.py under clients that move the faders and poll the status.
FaderRequests ==
    Posts(CrossfaderPath, ValueBodies) \cup Posts(MasterVolumePath, ValueBodies)
    \cup ChannelPosts("volume", SomeIds, ValueBodies) \cup StatusRequests

NextFaders ==
    \E req \in FaderRequests :
        \/ PostCrossfader(req)
        \/ PostMasterVolume(req)
        \/ PostChannelVolume(req)
        \/ GetMixerStatus(req)

SpecFaders == Init8080 /\ [][NextFaders]_vars

\* mock_cpp_server.py under clients that load and play tracks and poll the status.
DeckRequests ==
    ChannelPosts("load", SomeIds, NameBodies)
    \cup ChannelPosts("playback", SomeIds, ActionBodies) \cup StatusRequests

NextDecks ==
    \E req \in DeckRequests :
        \/ PostChannelLoad(req)
        \/ PostChannelPlayback(req)
        \/ GetMixerStatus(req)

SpecDecks == Init8080 /\ [][NextDecks]_vars

\* mock_cpp_server.py under clients that try the three channel routes with every id
\* segment, and with the segment left out (/api/mixer/channel/volume, where parts[4]
\* is the operation's own name), each with a usable body and with unusable ones.
ProbeBodies(key, good) ==
    {AbsentBody, NonObjectBody, ObjectBody(key :> good), ObjectBody(key :> JStr("abc"))}

ChannelProbes(op, bodies) ==
    ChannelPosts(op, IdSegments, bodies)
    \cup {Req("POST", <<"api", "mixer", "channel", op>>, b) : b \in bodies}

ChannelRequests ==
    ChannelProbes("volume", ProbeBodies("value", JNum(150)))
    \cup ChannelProbes("load", ProbeBodies("name", JStr("a")))
    \cup ChannelProbes("playback", ProbeBodies("action", JStr("play")))

NextChannels ==
    \E req \in ChannelRequests :
        \/ PostChannelVolume(req)
        \/ PostChannelLoad(req)
        \/ PostChannelPlayback(req)

SpecChannels == Init8080 /\ [][NextChannels]_vars

\* start_mock_server_8082.py under clients that drive the microphone.
MicRequests ==
    Posts(MicStartPath, GainBodies) \cup Posts(MicStopPath, PlainBodies)
    \cup Posts(MicGainPath, GainBodies) \cup StatusRequests \cup MicStatusRequests

NextMic ==
    \E req \in MicRequests :
        \/ PostMicrophoneStart8082(req)
        \/ PostMicrophoneStop8082(req)
        \/ PostMicrophoneGain8082(req)
        \/ GetMixerStatus8082(req)
        \/ GetMicrophoneStatus8082(req)

SpecMic == Init8082 /\ [][NextMic]_vars

\* Either program, under clients that set the values held in [0,1].
InitAny == variant \in {"mock_cpp_server", "start_mock_server_8082"} /\ InitState

Next == NextFaders \/ NextMic

Spec == InitAny /\ [][Next]_vars

\* Either program, under clients that often send no usable body: each route that
\* reads a field, with the bodies that make it fall back and with one that does not.
OrFallback(key, v) == FallbackBodies \cup {ObjectBody(key :> v)}

FallbackRequests ==
    Posts(CrossfaderPath, OrFallback("value", JNum(150)))
    \cup Posts(MasterVolumePath, OrFallback("value", JNum(150)))
    \cup ChannelPosts("volume", {"1", "2"}, OrFallback("value", JNum(150)))
    \cup ChannelPosts("playback", {"1", "2"}, OrFallback("action", JStr("stop")))
    \cup Posts(MicStartPath, OrFallback("gain", JNum(3000)))
    \cup Posts(MicGainPath, OrFallback("gain", JNum(3000)))
    \cup Posts(MicStopPath, {AbsentBody})

NextFallbacks ==
    \E req \in FallbackRequests :
        \/ PostCrossfader(req)
        \/ PostMasterVolume(req)
        \/ PostChannelVolume(req)
        \/ PostChannelPlayback(req)
        \/ PostMicrophoneStart8082(req)
        \/ PostMicrophoneGain8082(req)
        \/ PostMicrophoneStop8082(req)

SpecFallbacks == InitAny /\ [][NextFallbacks]_vars

\* Either program, under a client that walks over every route of both programs (each
\* program answers the other's routes as unknown ones), a path no program knows and
\* a preflight; the crossfader, the playback and the gain also with a field.
UnknownPath == <<"api", "nope">>

OrAbove(key, v) == {AbsentBody, ObjectBody(key :> v)}

RouteRequests ==
    Gets({HealthPath, StatsPath, StatusPath, MicStatusPath, LevelsPath, UnknownPath})
    \cup Posts(CrossfaderPath, OrAbove("value", JNum(150)))
    \cup Posts(MasterVolumePath, {AbsentBody})
    \cup ChannelPosts("volume", {"1", "9"}, {AbsentBody})
    \cup ChannelPosts("load", {"1"}, {AbsentBody})
    \cup ChannelPosts("playback", {"1"}, OrAbove("action", JStr("stop")))
    \cup Posts(MicTogglePath, {AbsentBody})
    \cup Posts(MicStartPath, OrAbove("gain", JNum(15000)))
    \cup Posts(MicGainPath, OrAbove("gain", JNum(15000)))
    \cup Posts(MicStopPath, {AbsentBody})
    \cup Posts(UnknownPath, {AbsentBody})
    \cup {Req("OPTIONS", UnknownPath, AbsentBody)}

NextRoutes ==
    \E req \in RouteRequests :
        \/ PostCrossfader(req)
        \/ PostMasterVolume(req)
        \/ PostChannelVolume(req)
        \/ PostChannelLoad(req)
        \/ PostChannelPlayback(req)
        \/ PostMicrophoneToggle(req)
        \/ PostNotFound(req)
        \/ GetHealth(req)
        \/ GetStats(req)
        \/ GetMixerStatus(req)
        \/ GetMicrophoneStatus(req)
        \/ GetAudioLevels(req)
        \/ GetNotFound(req)
        \/ Options(req)
        \/ PostMicrophoneStart8082(req)
        \/ PostMicrophoneStop8082(req)
        \/ PostMicrophoneGain8082(req)
        \/ PostNotFound8082(req)
        \/ GetHealth8082(req)
        \/ GetMixerStatus8082(req)
        \/ GetMicrophoneStatus8082(req)
        \/ GetNotFound8082(req)
        \/ Options8082(req)

SpecRoutes == InitAny /\ [][NextRoutes]_vars

\* Either program, under clients that start both channels, move the crossfader to its
\* ends, open channel 2's fader, drive the microphone, and poll the status.
MixRequests ==
    Posts(CrossfaderPath, {ObjectBody("value" :> JNum(x)) : x \in {-50, 150}})
    \cup ChannelPosts("volume", {"2"}, {ObjectBody("value" :> JNum(150))})
    \cup ChannelPosts("playback", {"1", "2"}, {ObjectBody("action" :> JStr("play"))})
    \cup StatusRequests

NextMix ==
    \E req \in MixRequests :
        \/ PostCrossfader(req)
        \/ PostChannelVolume(req)
        \/ PostChannelPlayback(req)
        \/ GetMixerStatus(req)

NextLevels == NextMix \/ NextMic

SpecLevels == InitAny /\ [][NextLevels]_vars

(***************************************************************************)
(* The server loop, statement by statement.  run_server builds an          *)
(* HTTPServer, whose serve_forever accepts a connection, runs the handler  *)
(* in the same thread until it returns, and only then accepts the next.    *)
(* Here a setter's handler is the sequence of its accesses to server_state *)
(* (every request of this part has a usable body and a valid channel), so  *)
(* that what another handler could see or overwrite in between is in the   *)
(* model.                                                                  *)
(***************************************************************************)
\* The statements of the handler of req that touch server_state, in order, and the
\* response that ends it.
Program(req) ==
    CASE IsPost8080(req) /\ req.path = MicTogglePath ->
             <<"read not enabled", "write enabled", "respond">>
      [] IsPost8080(req) /\ req.path = CrossfaderPath ->
             <<"write crossfader", "respond">>
      [] IsPost8080(req) /\ StartsWithChannel(req.path) /\ EndsWith(req.path, "playback") ->
             IF IsStr(BodyGet(ParseBody(req.body), "action", JStr("play")).v, "stop")
             THEN <<"write is_playing", "write position", "respond">>
             ELSE <<"write is_playing", "respond">>
      [] IsPost8082(req) /\ req.path = MicStartPath ->
             <<"write enabled", "write gain", "write talkover", "respond">>
      [] IsPost8082(req) /\ req.path = MicStopPath ->
             <<"write enabled", "write talkover", "respond">>
      [] IsPost8082(req) /\ req.path = MicGainPath ->
             <<"write gain", "respond">>
      [] OTHER -> <<"respond">>

\* What one statement of the handler of req does to the handler's local value and to
\* the mixer mx and the microphone mic.
Statement(stmt, req, local, mx, mic) ==
    LET ch == PyInt(req.path[4]).n
        action == BodyGet(ParseBody(req.body), "action", JStr("play")).v
        out(l, m, k) == [local |-> l, mixer |-> m, microphone |-> k]
    IN  CASE stmt = "read not enabled" ->
                 out(~mic.enabled, mx, mic)
          [] stmt = "write enabled" ->
                 out(local, mx,
                     [mic EXCEPT !.enabled = IF req.path = MicTogglePath THEN local
                                             ELSE req.path = MicStartPath])
          [] stmt = "write talkover" ->
                 out(local, mx, [mic EXCEPT !.talkover = (req.path = MicStartPath)])
          [] stmt = "write gain" ->
                 out(local, mx,
                     [mic EXCEPT !.gain = ClampPercent(FloatField(req.body, "gain", JNum(7500)))])
          [] stmt = "write crossfader" ->
                 out(local,
                     [mx EXCEPT !.crossfader = Clamp01(FloatField(req.body, "value", JNum(50)))],
                     mic)
          [] stmt = "write is_playing" ->
                 out(local, [mx EXCEPT !.channels[ch].is_playing = IsStr(action, "play")], mic)
          [] stmt = "write position" ->
                 out(local, [mx EXCEPT !.channels[ch].position = 0], mic)
          [] OTHER -> out(local, mx, mic)

\* The dict the handler of req sends, built from server_state as it is then.
Reply(req) ==
    LET field(key, default) == BodyGet(ParseBody(req.body), key, default).v
        ch == PyInt(req.path[4]).n
    IN  CASE IsPost8080(req) /\ req.path = MicTogglePath ->
                 Json(200, [success |-> TRUE, action |-> "microphone_toggle",
                            enabled |-> microphone.enabled])
          [] IsPost8080(req) /\ req.path = CrossfaderPath ->
                 Json(200, [success |-> TRUE, action |-> "crossfader_set",
                            value |-> mixer.crossfader])
          [] IsPost8080(req) /\ StartsWithChannel(req.path) /\ EndsWith(req.path, "playback") ->
                 Json(200, [success |-> TRUE,
                            action |-> "playback_" \o PyStr(field("action", JStr("play"))),
                            channel |-> ch,
                            is_playing |-> mixer.channels[ch].is_playing])
          [] IsPost8082(req) /\ req.path = MicStartPath ->
                 Json(200, [success |-> TRUE, action |-> "microphone_started",
                            gain |-> field("gain", JNum(7500)),
                            talkover_enabled |-> TRUE,
                            message |-> "Microphone started with auto-talkover"])
          [] IsPost8082(req) /\ req.path = MicStopPath ->
                 Json(200, [success |-> TRUE, action |-> "microphone_stopped",
                            talkover_enabled |-> FALSE,
                            message |-> "Microphone stopped, talkover disabled"])
          [] IsPost8082(req) /\ req.path = MicGainPath ->
                 Json(200, [success |-> TRUE, action |-> "microphone_gain_set",
                            gain |-> field("gain", JNum(7500)),
                            normalized_gain |-> microphone.gain])
          [] OTHER ->
                 Json(404, [success |-> FALSE,
                            error |-> "POST endpoint not implemented: " \o PathString(req.path)])

Waiting(c)  == connections[c].pc = 0
Returned(c) == connections[c].pc > Len(Program(connections[c].req))
Running(c)  == ~Waiting(c) /\ ~Returned(c)

\* Whether the loop is back at accept(): every handler it started has returned.
ServerIdleThreaded == TRUE

ServerIdle == \A c \in Clients : ~Running(c)

\* serve_forever takes the next connection and starts its handler, which reads the
\* body.
Accept(c) ==
    /\ Waiting(c)
    /\ ServerIdle
    /\ connections' = [connections EXCEPT ![c].pc = 1]
    /\ UNCHANGED <<variant, uptime, mixer, microphone, audio_levels, request, response>>

\* The handler of c runs its next statement on server_state.
Execute(c) ==
    /\ Running(c)
    /\ LET conn == connections[c]
           stmt == Program(conn.req)[conn.pc]
           out  == Statement(stmt, conn.req, conn.local, mixer, microphone)
       IN  /\ stmt # "respond"
           /\ mixer' = out.mixer
           /\ microphone' = out.microphone
           /\ connections' = [connections EXCEPT ![c].pc = @ + 1, ![c].local = out.local]
    /\ UNCHANGED <<variant, uptime, audio_levels, request, response>>

\* The handler of c sends its response and returns.
Respond(c) ==
    /\ Running(c)
    /\ Program(connections[c].req)[connections[c].pc] = "respond"
    /\ request' = connections[c].req
    /\ response' = Reply(connections[c].req)
    /\ connections' = [connections EXCEPT ![c].pc = @ + 1]
    /\ UNCHANGED <<variant, uptime, mixer, microphone, audio_levels>>

\* Either program, with every client's request submitted before the first is taken.
SubmittedRequests ==
    IF variant = "mock_cpp_server"
    THEN Posts(MicTogglePath, {AbsentBody})
         \cup Posts(CrossfaderPath, {ObjectBody("value" :> JNum(x)) : x \in {30, 150}})
         \cup ChannelPosts("playback", {"1"}, {ObjectBody("action" :> JStr(a)) : a \in {"play", "stop"}})
    ELSE Posts(MicStartPath, {ObjectBody("gain" :> JNum(3000))})
         \cup Posts(MicStopPath, {AbsentBody})
         \cup Posts(MicGainPath, {ObjectBody("gain" :> JNum(15000))})

InitSubmitted ==
    /\ variant \in {"mock_cpp_server", "start_mock_server_8082"}
    /\ InitServerState
    /\ connections \in [Clients -> {Connection(r, 0, FALSE) : r \in SubmittedRequests}]

NextServer == \E c \in Clients : Accept(c) \/ Execute(c) \/ Respond(c)

SpecServer == InitSubmitted /\ [][NextServer]_vars

(***************************************************************************)
(* The claims.  What a claim says of a request is read off the request     *)
(* handled last and the response sent for it.                              *)
(***************************************************************************)
IsPost(r, path) == r.method = "POST" /\ r.path = path
IsGet(r, path)  == r.method = "GET" /\ r.path = path
HasField(r, key) == r.body.kind = "object" /\ key \in DOMAIN r.body.fields

\* A JSON number: one a float holds, or an integer too large for one.
IsNumber(j) == j.t \in {"num", "bigint"}
\* clamp(v, 0, 1) of a JSON number, in hundredths.
Clamped(j) ==
    IF j.t = "bigint" THEN 100
    ELSE IF j.n < 0 THEN 0
    ELSE IF j.n > 100 THEN 100
    ELSE j.n

\* The channel a valid id segment names.
ChannelOf(seg) == IF seg = "1" THEN 1 ELSE 2
IsChannelPost(r, op) ==
    r.method = "POST" /\ StartsWithChannel(r.path) /\ EndsWith(r.path, op)
IsValidChannelPost(r, op) == IsChannelPost(r, op) /\ r.path[4] \in {"1", "2"}

Ok(data) == Json(200, data)

\* C1: for every numeric v, POST /api/mixer/crossfader {value: v} stores clamp(v,0,1),
\* answers success:true, action 'crossfader_set' and the stored value, and a
\* GET /api/mixer/status reports the crossfader that is stored.
C1_CrossfaderClampsEveryNumber ==
    /\ (IsPost(request, CrossfaderPath) /\ HasField(request, "value")
            /\ IsNumber(request.body.fields["value"]))
        => /\ mixer.crossfader = Clamped(request.body.fields["value"])
           /\ response = Ok([success |-> TRUE, action |-> "crossfader_set",
                             value |-> Clamped(request.body.fields["value"])])
    /\ IsGet(request, StatusPath)
        => response.status = 200 /\ response.body.mixer.crossfader = mixer.crossfader

\* C2: for every channel id in {1,2} and numeric v, POST /api/mixer/channel/{id}/volume
\* sets that channel's volume to clamp(v,0,1) and changes nothing else of the mixer,
\* the microphone, the levels or uptime.
C2_VolumeClampsOneChannel ==
    [][(IsValidChannelPost(request', "volume") /\ HasField(request', "value")
            /\ IsNumber(request'.body.fields["value"]))
        => /\ mixer' = [mixer EXCEPT !.channels[ChannelOf(request'.path[4])].volume =
                                         Clamped(request'.body.fields["value"])]
           /\ UNCHANGED <<uptime, microphone, audio_levels>>]_vars

\* The id segments that are the integer 1 or 2 (int() reads 01 as 1).
DenotesChannel(seg) == seg \in {"1", "01", "2"}

\* C3: a POST to a channel route whose id segment is not the integer 1 or 2 (0, 3, 9,
\* a negative one, no integer at all) is answered 400 with success:false and an error
\* message ('Invalid channel ID' for an integer out of range), and changes nothing of
\* the state.
C3_InvalidChannelRejected ==
    [][(\E op \in {"volume", "load", "playback"} : IsChannelPost(request', op))
            /\ ~DenotesChannel(request'.path[4])
        => /\ response'.status = 400
           /\ response'.body.success = FALSE
           /\ response'.body.error =
                  IF request'.path[4] \in {"-1", "0", "3", "9"}
                  THEN "Invalid channel ID" ELSE "Invalid channel ID in path"
           /\ UNCHANGED state]_vars

C3_Witness ==
    /\ request = Req("POST", ChannelPath("9", "volume"), ObjectBody("value" :> JNum(150)))
    /\ response = Json(400, [success |-> FALSE, error |-> "Invalid channel ID"])
    /\ mixer.channels[1].volume = 100
    /\ mixer.channels[2].is_playing

\* C4: with a valid channel id no body makes a channel route answer an error or
\* fault: the request succeeds.
C4_ValidChannelNeverFails ==
    (\E op \in {"volume", "load", "playback"} : IsValidChannelPost(request, op))
        => response.status = 200 /\ response.body.success = TRUE

\* C5: a POST whose body is absent, empty or not parseable JSON succeeds with the
\* fallback of its field: crossfader 0.5, channel volume 0.7, master volume 0.8,
\* playback 'play', microphone gain 75.0.
C5_FallbackApplied ==
    request.body \in FallbackBodies =>
        /\ IsPost(request, CrossfaderPath) =>
              mixer.crossfader = 50
              /\ response = Ok([success |-> TRUE, action |-> "crossfader_set", value |-> 50])
        /\ IsPost(request, MasterVolumePath) =>
              mixer.master_volume = 80
              /\ response = Ok([success |-> TRUE, action |-> "master_volume_set", value |-> 80])
        /\ IsValidChannelPost(request, "volume") =>
              LET c == ChannelOf(request.path[4])
              IN  /\ mixer.channels[c].volume = 70
                  /\ response = Ok([success |-> TRUE, action |-> "channel_volume_set",
                                    channel |-> c, value |-> 70])
        /\ IsValidChannelPost(request, "playback") =>
              LET c == ChannelOf(request.path[4])
              IN  /\ mixer.channels[c].is_playing
                  /\ response = Ok([success |-> TRUE, action |-> "playback_play",
                                    channel |-> c, is_playing |-> TRUE])
        /\ IsPost(request, MicStartPath) =>
              /\ microphone.gain = 75 /\ microphone.enabled /\ microphone.talkover
              /\ response.status = 200 /\ response.body.success = TRUE
              /\ response.body.gain = JNum(7500)
        /\ IsPost(request, MicGainPath) =>
              /\ microphone.gain = 75
              /\ response.status = 200 /\ response.body.success = TRUE
              /\ response.body.gain = JNum(7500)

C5_Witness ==
    /\ request = Req("POST", ChannelPath("2", "volume"), MalformedBody)
    /\ response.status = 200
    /\ mixer.channels[2].volume = 70
    /\ mixer.channels[1].volume = 100
    /\ mixer.crossfader = 100

\* C6: in every reachable state crossfader, master_volume, both channel volumes and
\* the microphone gain lie in [0,1].
C6_NormalizedInRange ==
    /\ mixer.crossfader \in 0..100
    /\ mixer.master_volume \in 0..100
    /\ \A c \in 1..2 : mixer.channels[c].volume \in 0..100
    /\ microphone.gain \in 0..100

C6_Witness ==
    /\ request = Req("POST", MasterVolumePath, ObjectBody("value" :> JNum(150)))
    /\ mixer.master_volume = 100
    /\ mixer.crossfader = 0
    /\ mixer.channels[1].volume = 30

\* C7: for every channel id in {1,2}, from every state, playback 'stop' leaves the
\* channel with is_playing false and position 0.
C7_StopHaltsAndRewinds ==
    (IsValidChannelPost(request, "playback") /\ HasField(request, "action")
        /\ request.body.fields["action"] = JStr("stop"))
    => LET c == ChannelOf(request.path[4])
       IN  /\ mixer.channels[c].is_playing = FALSE
           /\ mixer.channels[c].position = 0

\* The channel was seen playing by the last status poll, and is stopped now.
C7_Witness ==
    /\ request = Req("POST", ChannelPath("1", "playback"), ObjectBody("action" :> JStr("stop")))
    /\ audio_levels.channel_1_left > 0
    /\ ~mixer.channels[1].is_playing
    /\ mixer.channels[2].is_playing

\* C8: load with name n on a valid channel sets that channel's loaded_track to n and
\* position to 0 and changes no other field of the mixer (is_playing of either
\* channel, the other channel); a GET /api/mixer/status reports the mixer as stored.
C8_LoadSetsTrackOnly ==
    [][/\ (IsValidChannelPost(request', "load") /\ HasField(request', "name"))
           => LET c == ChannelOf(request'.path[4])
                  n == request'.body.fields["name"]
              IN  /\ mixer'.channels[c].loaded_track = n
                  /\ mixer'.channels[c].position = 0
                  /\ mixer' = [mixer EXCEPT !.channels[c].loaded_track = n,
                                            !.channels[c].position = 0]
       /\ IsGet(request', StatusPath)
           => response'.status = 200 /\ response'.body.mixer = mixer']_vars

C8_Witness ==
    /\ request = Req("POST", ChannelPath("2", "load"), ObjectBody("name" :> JStr("a")))
    /\ mixer.channels[2].loaded_track = JStr("a")
    /\ mixer.channels[2].is_playing
    /\ mixer.channels[1].loaded_track = DefaultTrackName

\* C9: on a valid channel 'play' sets is_playing true and 'pause' sets it false, with
\* nothing else of the mixer changed (position retained); the response is success:true,
\* action 'playback_<action>', the 1-based channel id and the channel's is_playing.
C9_PlayPause ==
    [][\A a \in {"play", "pause"} :
          (IsValidChannelPost(request', "playback") /\ HasField(request', "action")
              /\ request'.body.fields["action"] = JStr(a))
          => LET c == ChannelOf(request'.path[4])
             IN  /\ mixer' = [mixer EXCEPT !.channels[c].is_playing = (a = "play")]
                 /\ response' = Ok([success |-> TRUE, action |-> "playback_" \o a,
                                    channel |-> c, is_playing |-> (a = "play")])]_vars

C9_Witness ==
    /\ request = Req("POST", ChannelPath("2", "playback"), ObjectBody("action" :> JStr("play")))
    /\ response = Ok([success |-> TRUE, action |-> "playback_play",
                      channel |-> 2, is_playing |-> TRUE])
    /\ mixer.channels[2].is_playing
    /\ ~mixer.channels[1].is_playing

\* C10: microphone stop leaves enabled and talkover false, and a microphone start,
\* whatever was requested before, leaves enabled and talkover true.
C10_StartStopStart ==
    /\ IsPost(request, MicStopPath) => ~microphone.enabled /\ ~microphone.talkover
    /\ IsPost(request, MicStartPath) => microphone.enabled /\ microphone.talkover

\* clamp(g, 0, 100) / 100 of a JSON number g (a percentage in hundredths), in hundredths.
ClampedPercent(j) ==
    IF j.t = "bigint" THEN 100
    ELSE IF j.n < 0 THEN 0
    ELSE IF j.n > 10000 THEN 100
    ELSE j.n \div 100

HasNumber(r, key) == HasField(r, key) /\ IsNumber(r.body.fields[key])

\* C11: for every numeric gain percent g, microphone start and microphone gain store
\* gain = clamp(g,0,100)/100 (start with gain 50 leaves enabled true, gain 0.5,
\* talkover true), and GET /api/mixer/microphone/status reports the microphone as
\* stored, without changing it.
C11_GainStoredAsFraction ==
    [][/\ (IsPost(request', MicStartPath) /\ HasNumber(request', "gain"))
           => microphone' = [microphone EXCEPT
                                 !.enabled = TRUE,
                                 !.gain = ClampedPercent(request'.body.fields["gain"]),
                                 !.talkover = TRUE]
       /\ (IsPost(request', MicGainPath) /\ HasNumber(request', "gain"))
           => microphone'.gain = ClampedPercent(request'.body.fields["gain"])
       /\ IsGet(request', MicStatusPath)
           => /\ response' = Ok([success |-> TRUE, microphone |-> microphone])
              /\ microphone' = microphone]_vars

\* C12: every setter's response reports the value the state holds after the request:
\* 'value' of crossfader, channel volume and master volume, 'is_playing' of playback,
\* 'enabled' of microphone toggle, and 'gain' of microphone start and microphone gain,
\* which is the stored (clamped) gain as a percentage also for inputs outside [0,100].
C12_ResponseReportsStored ==
    response.status = 200 =>
        /\ IsPost(request, CrossfaderPath) => response.body.value = mixer.crossfader
        /\ IsPost(request, MasterVolumePath) => response.body.value = mixer.master_volume
        /\ IsValidChannelPost(request, "volume") =>
              response.body.value = mixer.channels[ChannelOf(request.path[4])].volume
        /\ IsValidChannelPost(request, "playback") =>
              response.body.is_playing = mixer.channels[ChannelOf(request.path[4])].is_playing
        /\ IsPost(request, MicTogglePath) => response.body.enabled = microphone.enabled
        /\ (IsPost(request, MicStartPath) \/ IsPost(request, MicGainPath)) =>
              response.body.gain = JNum(microphone.gain * 100)

\* A response was sent for a GET or a POST (a request that faults gets none).
Answered == request.method \in {"GET", "POST"} /\ response.status # 0
HasSuccess(data) == "success" \in DOMAIN data /\ data.success \in BOOLEAN

\* C13 as stated: every JSON response of every GET and POST route, successful or not,
\* GET /api/health included, has a boolean 'success' field.
C13_EveryResponseHasSuccess == Answered => HasSuccess(response.body)

\* C13: every JSON response of a GET or POST route other than GET /api/health,
\* successful or not, has a boolean 'success' field; the response of GET /api/health
\* has none (its fields are status, service, version, uptime, timestamp).
C13_SuccessExceptHealth ==
    Answered =>
        IF IsGet(request, HealthPath)
        THEN DOMAIN response.body = {"status", "service", "version", "uptime", "timestamp"}
        ELSE HasSuccess(response.body)

\* A rejected channel id, answered with success:false, while channel 1 plays.
C13_Witness ==
    /\ request = Req("POST", ChannelPath("9", "volume"), AbsentBody)
    /\ response.status = 400
    /\ response.body.success = FALSE
    /\ mixer.channels[1].is_playing
    /\ microphone.enabled

\* The route a request is for, as the endpoint lists write it.
RouteOf(r) ==
    IF IsChannelRoute(r.path)
    THEN "/api/mixer/channel/{id}/" \o r.path[Len(r.path)]
    ELSE PathString(r.path)

\* The (method, path) pairs the running program lists in its GET 404 response.
Listed ==
    LET l == IF variant = "mock_cpp_server" THEN AvailableEndpoints ELSE AvailableEndpoints8082
    IN  {l[i] : i \in DOMAIN l}

\* C14: a request to a path matching no route is answered 404 with success:false and
\* an error message, for GET with a list available_endpoints; and that list is the
\* full set of routes: every (method, path) the same program answers with another
\* status than 404 is in it.
C14_NotFoundListsEveryRoute ==
    /\ (request.method \in {"GET", "POST"} /\ request.path = UnknownPath)
           => response.status = 404
    /\ (Answered /\ response.status = 404)
           => /\ response.body.success = FALSE
              /\ "error" \in DOMAIN response.body
              /\ request.method = "GET" =>
                     /\ "available_endpoints" \in DOMAIN response.body
                     /\ {response.body.available_endpoints[i] :
                             i \in DOMAIN response.body.available_endpoints} = Listed
    /\ (Answered /\ response.status # 404)
           => <<request.method, RouteOf(request)>> \in Listed

\* The levels of channel c as the last status query stored them.
LeftOf(c)  == IF c = 1 THEN audio_levels.channel_1_left ELSE audio_levels.channel_2_left
RightOf(c) == IF c = 1 THEN audio_levels.channel_1_right ELSE audio_levels.channel_2_right

\* A master level is a product of four values in hundredths in mock_cpp_server.py and
\* of three in start_mock_server_8082.py: what to multiply a product of two by to
\* compare it with one.
MasterUnit == IF variant = "mock_cpp_server" THEN 100 * 100 ELSE 100

\* C15: after every GET /api/mixer/status each channel's left and right level is 0 if
\* the channel is not playing and lies in [0.3,0.9] if it is (so always in [0,1]), and
\* master_left and master_right are at most master_volume times 0.9, the largest
\* contribution a channel can make (level 0.9, volume 1, weight 1).
C15_LevelsBounded ==
    IsGet(request, StatusPath) =>
        /\ \A c \in 1..2 :
              /\ ~mixer.channels[c].is_playing => LeftOf(c) = 0 /\ RightOf(c) = 0
              /\ mixer.channels[c].is_playing => LeftOf(c) \in 30..90 /\ RightOf(c) \in 30..90
              /\ LeftOf(c) \in 0..100 /\ RightOf(c) \in 0..100
        /\ audio_levels.master_left  <= mixer.master_volume * 90 * MasterUnit
        /\ audio_levels.master_right <= mixer.master_volume * 90 * MasterUnit

\* Channel 1 plays at the top of the range and channel 2 is silent.
C15_Witness ==
    /\ IsGet(request, StatusPath)
    /\ variant = "mock_cpp_server"
    /\ mixer.channels[1].is_playing /\ ~mixer.channels[2].is_playing
    /\ audio_levels.channel_1_left = 90 /\ audio_levels.channel_1_right = 30
    /\ audio_levels.channel_2_left = 0
    /\ audio_levels.master_left > 0

\* C16: the master level weights channel 1's contribution by (1 - crossfader) and
\* channel 2's by crossfader: for the levels drawn, master_left and master_right are
\* the maximum over the channels of level x volume x weight (and of the microphone
\* level in the program that has one), times master_volume; a channel whose weight
\* is 0 contributes nothing.
C16_MasterWeightedByCrossfader ==
    IsGet(request, StatusPath) =>
        LET ch1 == audio_levels.channel_1_left * mixer.channels[1].volume * (100 - mixer.crossfader)
            ch2 == audio_levels.channel_2_left * mixer.channels[2].volume * mixer.crossfader
            mic == IF variant = "mock_cpp_server" THEN 0 ELSE audio_levels.microphone * 100
            \* in units of 10^-8 in both programs
            master == IF variant = "mock_cpp_server" THEN audio_levels.master_left
                      ELSE audio_levels.master_left * 100
        IN  /\ master = Max2(Max2(ch1, ch2), mic) * mixer.master_volume
            /\ audio_levels.master_right = audio_levels.master_left
            /\ (mixer.crossfader = 0 /\ mic = 0) =>
                  master = audio_levels.channel_1_left * mixer.channels[1].volume
                               * 100 * mixer.master_volume
            /\ (mixer.crossfader = 100 /\ mic = 0) =>
                  master = audio_levels.channel_2_left * mixer.channels[2].volume
                               * 100 * mixer.master_volume

\* The crossfader is fully on channel 1: channel 2, louder and with its fader open,
\* is not heard in the master level.
C16_Witness ==
    /\ IsGet(request, StatusPath)
    /\ variant = "mock_cpp_server"
    /\ mixer.crossfader = 0
    /\ mixer.channels[2].volume = 100
    /\ audio_levels.channel_1_left = 30 /\ audio_levels.channel_2_left = 90
    /\ audio_levels.master_left = 30 * 70 * 100 * 80

\* C17: a playback request on a valid channel whose action is none of play, pause and
\* stop changes no field of the state, is answered success:true with action
\* 'playback_<that action>', and reports the channel's is_playing, which is unchanged.
C17_UnknownActionEchoed ==
    [][(IsValidChannelPost(request', "playback") /\ HasField(request', "action")
            /\ request'.body.fields["action"].t = "str"
            /\ request'.body.fields["action"].s \notin {"play", "pause", "stop"})
        => LET c == ChannelOf(request'.path[4])
           IN  /\ UNCHANGED state
               /\ response' = Ok([success    |-> TRUE,
                                  action     |-> "playback_" \o request'.body.fields["action"].s,
                                  channel    |-> c,
                                  is_playing |-> mixer.channels[c].is_playing])]_vars

\* An action the chain does not know, on a channel that plays.
C17_Witness ==
    /\ request = Req("POST", ChannelPath("2", "playback"), ObjectBody("action" :> JStr("rewind")))
    /\ response = Ok([success |-> TRUE, action |-> "playback_rewind",
                      channel |-> 2, is_playing |-> TRUE])
    /\ mixer.channels[2].is_playing
    /\ mixer.channels[2].loaded_track = JStr("a")

\* C18: microphone stop leaves microphone.gain as it is, microphone gain leaves
\* enabled and talkover as they are, and neither changes muted or the mixer.
C18_StopKeepsGainGainKeepsFlags ==
    [][/\ IsPost(request', MicStopPath)
           => /\ microphone'.gain = microphone.gain
              /\ microphone'.muted = microphone.muted
              /\ mixer' = mixer
       /\ IsPost(request', MicGainPath)
           => /\ microphone'.enabled = microphone.enabled
              /\ microphone'.talkover = microphone.talkover
              /\ microphone'.muted = microphone.muted
              /\ mixer' = mixer]_vars

\* The microphone was started with gain 30 and then stopped: the gain stays.
C18_Witness ==
    /\ IsPost(request, MicStopPath)
    /\ response.status = 200
    /\ microphone = [enabled |-> FALSE, muted |-> FALSE, gain |-> 30, talkover |-> FALSE]
    /\ audio_levels.microphone > 0

\* C19: POST /api/mixer/microphone/toggle (mock_cpp_server.py) negates
\* microphone.enabled, reports the new value, and leaves talkover, gain and muted as
\* they are; a second toggle therefore restores the microphone state.
C19_ToggleNegatesEnabled ==
    [][(variant = "mock_cpp_server" /\ IsPost(request', MicTogglePath))
        => /\ microphone' = [microphone EXCEPT !.enabled = ~microphone.enabled]
           /\ response' = Ok([success |-> TRUE, action |-> "microphone_toggle",
                              enabled |-> ~microphone.enabled])]_vars

\* A toggle that switched the microphone off again: it is as it was at the start.
C19_Witness ==
    /\ variant = "mock_cpp_server"
    /\ IsPost(request, MicTogglePath)
    /\ response = Ok([success |-> TRUE, action |-> "microphone_toggle", enabled |-> FALSE])
    /\ microphone = InitialMicrophone

\* C20: in every reachable state each channel's position is at least 0, and it is 0
\* right after a request that stopped playback on the channel or loaded a track onto
\* it.
C20_PositionNeverNegative ==
    /\ \A c \in 1..2 : mixer.channels[c].position >= 0
    /\ ((IsValidChannelPost(request, "load")
            \/ (IsValidChannelPost(request, "playback") /\ HasField(request, "action")
                   /\ request.body.fields["action"] = JStr("stop")))
        /\ response.status = 200)
       => mixer.channels[ChannelOf(request.path[4])].position = 0

\* A track is loaded onto channel 1 while it plays.
C20_Witness ==
    /\ request = Req("POST", ChannelPath("1", "load"), ObjectBody("name" :> JStr("a")))
    /\ response.status = 200
    /\ mixer.channels[1].is_playing
    /\ mixer.channels[1].position = 0
    /\ audio_levels.channel_1_left > 0

\* The mixer and the microphone after the handler of req ran alone, from statement i
\* on, starting with mx and mic.
RECURSIVE RunHandler(_, _, _, _, _)
RunHandler(req, i, local, mx, mic) ==
    IF i > Len(Program(req)) THEN <<mx, mic>>
    ELSE LET out == Statement(Program(req)[i], req, local, mx, mic)
         IN  RunHandler(req, i + 1, out.local, out.mixer, out.microphone)

\* What the requests of the clients S can leave when handled one after the other, in
\* any order, starting with mx and mic.
RECURSIVE SerialOutcomes(_, _, _)
SerialOutcomes(S, mx, mic) ==
    IF S = {} THEN {<<mx, mic>>}
    ELSE UNION {LET after == RunHandler(connections[c].req, 1, FALSE, mx, mic)
                IN  SerialOutcomes(S \ {c}, after[1], after[2]) : c \in S}

\* C21: requests are handled one at a time: at no moment have two handlers started
\* and not returned, and whenever no handler runs the mixer and the microphone are
\* what the requests handled so far leave when run one after the other in some order.
C21_HandledOneAtATime ==
    /\ Cardinality({c \in Clients : Running(c)}) <= 1
    /\ (\A c \in Clients : ~Running(c))
           => <<mixer, microphone>> \in
                  SerialOutcomes({c \in Clients : Returned(c)}, InitialMixer, InitialMicrophone)

\* Two clients set the crossfader at the same time; the first client's request was
\* handled last.
C21_Witness ==
    /\ \A c \in Clients : Returned(c)
    /\ connections[1].req = Req("POST", CrossfaderPath, ObjectBody("value" :> JNum(30)))
    /\ connections[2].req = Req("POST", CrossfaderPath, ObjectBody("value" :> JNum(150)))
    /\ mixer.crossfader = 30
    /\ response.body.value = 30

\* C22: audio_levels are written by GET /api/mixer/status only: no other request
\* changes them, and GET /api/audio/levels answers with the stored levels without
\* recomputing them, so that it keeps reporting the levels of the last status query,
\* also for a channel stopped or paused since.
C22_LevelsWrittenByStatusOnly ==
    [][/\ audio_levels' # audio_levels => IsGet(request', StatusPath)
       /\ (variant = "mock_cpp_server" /\ IsGet(request', LevelsPath))
           => /\ response' = Ok([success |-> TRUE, levels |-> audio_levels])
              /\ audio_levels' = audio_levels]_vars

\* Channel 1 was stopped after a status query saw it playing: the levels reported are
\* still those of that query.
C22_Witness ==
    /\ variant = "mock_cpp_server"
    /\ IsGet(request, LevelsPath)
    /\ ~mixer.channels[1].is_playing
    /\ response.status = 200
    /\ response.body.levels.channel_1_left = 90
    /\ response.body.levels.master_left > 0

\* C23: no GET and no OPTIONS request changes the mixer or the microphone (a GET
\* changes at most uptime and audio_levels, an OPTIONS nothing of the state), and under
\* every sequence of requests there are two channels with ids 1 and 2, every eq band
\* is 0 and the microphone's muted is false, as at the start.
C23_ReadsLeaveConfiguration ==
    [][/\ request'.method \in {"GET", "OPTIONS"}
           => mixer' = mixer /\ microphone' = microphone
       /\ request'.method = "OPTIONS" => UNCHANGED state
       /\ Len(mixer'.channels) = 2
       /\ \A c \in 1..2 :
             /\ mixer'.channels[c].id = c
             /\ mixer'.channels[c].eq = [low |-> 0, mid |-> 0, high |-> 0]
       /\ microphone'.muted = FALSE]_vars

\* A status query of a mixer that was worked on: crossfader moved, channel 1 loaded and
\* playing, microphone on.
C23_Witness ==
    /\ variant = "mock_cpp_server"
    /\ IsGet(request, StatusPath)
    /\ response.status = 200
    /\ mixer.crossfader = 100
    /\ mixer.channels[1].is_playing
    /\ mixer.channels[1].loaded_track = DefaultTrackName
    /\ microphone.enabled
    /\ uptime = 1

=============================================================================
